---- MODULE Spec2Model ----
(***************************************************************************)
(* Model of generate.py: the token-by-token decode loop generate_stream,   *)
(* the whole-turn loop chatglm_generate_stream, the logits-processing      *)
(* pipeline, and the ModelServer gates that wrap the loops.                *)
(*                                                                         *)
(* Text is a sequence of one-character strings.  Floats are exact          *)
(* rationals [n |-> numerator, d |-> denominator] with d > 0.              *)
(*                                                                         *)
(* Spec       one request served through both gates                        *)
(* SpecPair   two runs of one request given the same scorer outputs        *)
(* SpecProc   one-step runs over the sampling parameters                   *)
(* SpecCancel one run and a cancellation flag set from outside             *)
(* SpecRng    two interleaved runs drawing from one random source          *)
(***************************************************************************)
EXTENDS Integers, Sequences, FiniteSets, TLC

\* ------------------------------------------------------------------ bounds
MaxNewTokens == 3       \* largest max_new_tokens a request carries
MaxInterval == 2        \* largest stream_interval a server is built with
MaxChatSteps == 2       \* most responses model.stream_chat yields
MaxPairTokens == 2      \* largest max_new_tokens of a request run twice
MaxRngTokens == 2       \* largest max_new_tokens of two interleaved runs

\* ------------------------------------------------------------- python bits
None == "None"

Range(s) == {s[k] : k \in 1..Len(s)}

Last(s) == s[Len(s)]

\* s[:n] for 0 <= n
Prefix(s, n) == SubSeq(s, 1, IF n < Len(s) THEN n ELSE Len(s))

\* s[n:] for 0 <= n
Suffix(s, n) == SubSeq(s, n + 1, Len(s))

\* s[-m:] with Python's slice semantics: -0 is 0 (the whole list), a negative
\* m makes the start index |m| positive (the first |m| items are dropped).
LastSlice(s, m) ==
    IF m > 0 THEN (IF m >= Len(s) THEN s ELSE SubSeq(s, Len(s) - m + 1, Len(s)))
    ELSE IF m = 0 THEN s
    ELSE Suffix(s, -m)

\* str.rfind(sub, start): the highest index p >= start at which sub occurs
\* in s (0-based), -1 when there is none.
OccursAt(s, sub, p) ==
    /\ p + Len(sub) <= Len(s)
    /\ \A k \in 1..Len(sub) : s[p + k] = sub[k]

Occurrences(s, sub, start) == {p \in start..Len(s) : OccursAt(s, sub, p)}

SetMax(S) == CHOOSE x \in S : \A y \in S : y <= x

SetMin(S) == CHOOSE x \in S : \A y \in S : x <= y

rfind(s, sub, start) ==
    IF Occurrences(s, sub, start) = {} THEN -1
    ELSE SetMax(Occurrences(s, sub, start))

\* ---------------------------------------------------------------- rationals
Rat(n, d) == [n |-> n, d |-> d]

RLt(a, b) == a.n * b.d < b.n * a.d

RLe(a, b) == a.n * b.d <= b.n * a.d

REq(a, b) == a.n * b.d = b.n * a.d

\* ---------------------------------------------------------------- tokenizer
\* Vocabulary: id 0 is the end-of-sequence special token, whose literal in
\* text is the single symbol "S"; ids 1 and 2 are the ordinary pieces "a", "b".
eos_token_id == 0

Vocab == 0..2

TokenOf(c) == CASE c = "S" -> 0 [] c = "a" -> 1 [] c = "b" -> 2

TextOf(t) == CASE t = 0 -> "S" [] t = 1 -> "a" [] t = 2 -> "b"

IsSpecial(t) == t = eos_token_id

\* tokenizer(prompt).input_ids
Encode(text) == [k \in 1..Len(text) |-> TokenOf(text[k])]

\* tokenizer.decode(ids, skip_special_tokens=True, ...): special ids vanish.
RECURSIVE Decode(_)
Decode(ids) ==
    IF ids = <<>> THEN <<>>
    ELSE IF IsSpecial(Head(ids)) THEN Decode(Tail(ids))
    ELSE <<TextOf(Head(ids))>> \o Decode(Tail(ids))

\* ------------------------------------------------------ logits processing
\* Raw scores are small integers chosen so that every division below is
\* exact.  A masked entry holds NegInf.  Probability mass is taken with
\* base 2 in place of base e, which keeps the filter's arithmetic integral.
NegInf == -1000

One == Rat(1, 1)

Eps5 == Rat(1, 100000)          \* 1e-5

Eps8 == Rat(1, 100000000)       \* 1e-8

RECURSIVE Pow2(_)
Pow2(k) == IF k <= 0 THEN 1 ELSE 2 * Pow2(k - 1)

RECURSIVE SumTo(_, _)
SumTo(f, n) == IF n < 0 THEN 0 ELSE f[n] + SumTo(f, n - 1)

\* mutant: top-k is appended before top-p
prepare_logits_processor_TopKFirst(temperature, repetition_penalty, top_p, top_k) ==
    (IF RLe(Eps5, temperature) /\ ~REq(temperature, One)
        THEN <<"TemperatureLogitsWarper">> ELSE <<>>)
    \o (IF RLt(One, repetition_penalty)
        THEN <<"RepetitionPenaltyLogitsProcessor">> ELSE <<>>)
    \o (IF top_k > 0 THEN <<"TopKLogitsWarper">> ELSE <<>>)
    \o (IF RLe(Eps8, top_p) /\ RLt(top_p, One)
        THEN <<"TopPLogitsWarper">> ELSE <<>>)

prepare_logits_processor(temperature, repetition_penalty, top_p, top_k) ==
    (IF RLe(Eps5, temperature) /\ ~REq(temperature, One)
        THEN <<"TemperatureLogitsWarper">> ELSE <<>>)
    \o (IF RLt(One, repetition_penalty)
        THEN <<"RepetitionPenaltyLogitsProcessor">> ELSE <<>>)
    \o (IF RLe(Eps8, top_p) /\ RLt(top_p, One)
        THEN <<"TopPLogitsWarper">> ELSE <<>>)
    \o (IF top_k > 0 THEN <<"TopKLogitsWarper">> ELSE <<>>)

\* scores / temperature
TemperatureLogitsWarper(temperature, scores) ==
    [t \in Vocab |-> (scores[t] * temperature.d) \div temperature.n]

\* every id of the history: score * penalty when negative, score / penalty
\* otherwise
RepetitionPenaltyLogitsProcessor(penalty, input_ids, scores) ==
    [t \in Vocab |->
        IF t \in Range(input_ids)
        THEN (IF scores[t] < 0 THEN (scores[t] * penalty.n) \div penalty.d
              ELSE (scores[t] * penalty.d) \div penalty.n)
        ELSE scores[t]]

\* position of t in the ascending sort of scores (ties in index order)
SortRank(scores, t) ==
    Cardinality({u \in Vocab : \/ scores[u] < scores[t]
                               \/ scores[u] = scores[t] /\ u < t})

Mass(scores) ==
    LET finite == {scores[u] : u \in {v \in Vocab : scores[v] # NegInf}}
        low == SetMin(finite)
    IN  [t \in Vocab |-> IF scores[t] = NegInf THEN 0 ELSE Pow2(scores[t] - low)]

\* ascending sort, cumulative probability; an entry is removed when its
\* cumulative probability is <= 1 - top_p, the highest entry always kept
TopPLogitsWarper(top_p, scores) ==
    LET w == Mass(scores)
        total == SumTo(w, Cardinality(Vocab) - 1)
        cum(t) == SumTo([u \in Vocab |->
                            IF SortRank(scores, u) <= SortRank(scores, t)
                            THEN w[u] ELSE 0], Cardinality(Vocab) - 1)
        remove(t) == /\ cum(t) * top_p.d <= (top_p.d - top_p.n) * total
                     /\ SortRank(scores, t) # Cardinality(Vocab) - 1
    IN  [t \in Vocab |-> IF remove(t) THEN NegInf ELSE scores[t]]

\* entries below the top_k-th highest score are removed
TopKLogitsWarper(top_k, scores) ==
    LET k == IF top_k < Cardinality(Vocab) THEN top_k ELSE Cardinality(Vocab)
        kth == SetMin({v \in {scores[t] : t \in Vocab} :
                         Cardinality({u \in Vocab : scores[u] > v}) < k})
    IN  [t \in Vocab |-> IF scores[t] < kth THEN NegInf ELSE scores[t]]

ApplyProcessor(name, sp, input_ids, scores) ==
    CASE name = "TemperatureLogitsWarper" ->
            TemperatureLogitsWarper(sp.temperature, scores)
      [] name = "RepetitionPenaltyLogitsProcessor" ->
            RepetitionPenaltyLogitsProcessor(sp.repetition_penalty, input_ids, scores)
      [] name = "TopPLogitsWarper" -> TopPLogitsWarper(sp.top_p, scores)
      [] name = "TopKLogitsWarper" -> TopKLogitsWarper(sp.top_k, scores)

\* LogitsProcessorList.__call__: each processor in list order
RECURSIVE LogitsProcessorList(_, _, _, _)
LogitsProcessorList(list, sp, input_ids, scores) ==
    IF list = <<>> THEN scores
    ELSE LogitsProcessorList(Tail(list), sp, input_ids,
                             ApplyProcessor(Head(list), sp, input_ids, scores))

\* the test of line 195
PassesHistory(repetition_penalty) == RLt(One, repetition_penalty)

\* the history handed to the pipeline (lines 195-198)
HistoryArg(repetition_penalty, output_ids) ==
    IF PassesHistory(repetition_penalty) THEN output_ids ELSE None

\* how line 199 calls the pipeline in one step, if it does (lines 194-201):
\* called, whether its first argument is the token history (with_ids) or
\* None, and the history passed
PipelineCall(sp, output_ids) ==
    LET logits_processor == prepare_logits_processor(
            sp.temperature, sp.repetition_penalty, sp.top_p, sp.top_k)
        with_ids == logits_processor # <<>> /\ PassesHistory(sp.repetition_penalty)
    IN  [called |-> logits_processor # <<>>,
         with_ids |-> with_ids,
         ids |-> IF with_ids THEN output_ids ELSE <<>>]

\* last_token_logits of one step (lines 194-201)
LastTokenLogits(sp, output_ids, logits) ==
    LET logits_processor == prepare_logits_processor(
            sp.temperature, sp.repetition_penalty, sp.top_p, sp.top_k)
    IN  IF logits_processor # <<>>
        THEN LogitsProcessorList(logits_processor, sp,
                 HistoryArg(sp.repetition_penalty, output_ids), logits)
        ELSE logits

\* torch.argmax: the first index holding the maximum
Argmax(scores) ==
    CHOOSE t \in Vocab : /\ \A u \in Vocab : scores[u] <= scores[t]
                         /\ \A u \in Vocab : u < t => scores[u] < scores[t]

\* mutant: the two thresholds joined by "and"
IsGreedy_BothThresholds(temperature, top_p) ==
    RLt(temperature, Eps5) /\ RLt(top_p, Eps8)

\* the branch condition of line 207
IsGreedy(temperature, top_p) == RLt(temperature, Eps5) \/ RLt(top_p, Eps8)

\* torch.multinomial is called without a generator (line 211): it draws
\* from the default generator of the process.  What that generator hands
\* out for one draw is a variate u; every id of non-zero probability is the
\* outcome of some variate.
Variates == 0..(Cardinality(Vocab) - 1)

\* torch.multinomial(torch.softmax(scores), 1) under variate u
Draw(u, scores) ==
    LET support == {t \in Vocab : scores[t] # NegInf}
        r == u % Cardinality(support)
    IN  CHOOSE t \in support : Cardinality({v \in support : v < t}) = r

\* the selection of lines 207-211: the argmax when greedy, otherwise the
\* draw
Select(sp, last_token_logits, u) ==
    IF IsGreedy(sp.temperature, sp.top_p)
    THEN Argmax(last_token_logits)
    ELSE Draw(u, last_token_logits)

\* the variates one selection can meet: the greedy branch asks for none,
\* and 0 stands in for the one it ignores
VariatesOf(sp) ==
    IF IsGreedy(sp.temperature, sp.top_p) THEN {0} ELSE Variates

\* the default generator after the selection: advanced by the draw, and
\* left alone by the greedy branch
RngAfter(sp, r, u) ==
    IF IsGreedy(sp.temperature, sp.top_p) THEN r ELSE Append(r, u)

\* ------------------------------------------------- generate_stream helpers
\* stop_token_ids = params.get("stop_token_ids", None) or []; then
\* stop_token_ids.append(tokenizer.eos_token_id).  A request without the
\* field, or with None, carries <<>>: the "or []" makes the three alike.
StopTokenIds(stop_token_ids) == stop_token_ids \o <<eos_token_id>>

\* max_src_len (lines 144-147)
MaxSrcLen(is_encoder_decoder, context_len, max_new_tokens) ==
    IF is_encoder_decoder THEN context_len
    ELSE context_len - max_new_tokens - 8

\* stopped after the token-level check (lines 215-218)
TokenStop(token, stop_token_ids) == token \in Range(stop_token_ids)

\* mutant: a stop token does not force an event
EmitCond_CadenceOnly(i, max_new_tokens, stream_interval, stopped) ==
    \/ i % stream_interval = 0
    \/ i = max_new_tokens - 1

\* mutant: the cadence is one step longer than stream_interval
EmitCond_SlowCadence(i, max_new_tokens, stream_interval, stopped) ==
    \/ i % (stream_interval + 1) = 0
    \/ i = max_new_tokens - 1
    \/ stopped

\* mutant: the last budgeted step does not force an event
EmitCond_NoLastStep(i, max_new_tokens, stream_interval, stopped) ==
    \/ i % stream_interval = 0
    \/ stopped

\* whether step i renders and yields (line 220)
EmitCond(i, max_new_tokens, stream_interval, stopped) ==
    \/ i % stream_interval = 0
    \/ i = max_new_tokens - 1
    \/ stopped

\* mutant: the search starts at 0 whatever echo is
RfindStart_Zero(echo, len_prompt) == 0

\* rfind_start (lines 221-226)
RfindStart(echo, len_prompt) == IF echo THEN len_prompt ELSE 0

\* tmp_output_ids (lines 221-226)
TmpOutputIds(echo, output_ids, input_echo_len) ==
    IF echo THEN output_ids ELSE Suffix(output_ids, input_echo_len)

\* mutant: of the stop strings rfind locates, the one located earliest in
\* the text
FirstStop_EarliestOffset(stop_list, k, output, rfind_start) ==
    LET found == {j \in k..Len(stop_list) :
                    rfind(output, stop_list[j], rfind_start) # -1}
    IN  IF found = {} THEN 0
        ELSE CHOOSE j \in found :
                \A j2 \in found :
                   \/ rfind(output, stop_list[j], rfind_start)
                         < rfind(output, stop_list[j2], rfind_start)
                   \/ /\ rfind(output, stop_list[j], rfind_start)
                            = rfind(output, stop_list[j2], rfind_start)
                      /\ j <= j2

\* the first stop string of the list, in list order, that rfind locates
\* (lines 240-245); 0 when none does
RECURSIVE FirstStop(_, _, _, _)
FirstStop(stop_list, k, output, rfind_start) ==
    IF k > Len(stop_list) THEN 0
    ELSE IF rfind(output, stop_list[k], rfind_start) # -1 THEN k
    ELSE FirstStop(stop_list, k + 1, output, rfind_start)

\* mutant: a match sets stopped and leaves the text uncut
StopStrCheck_NoCut(stop, output, rfind_start, stopped) ==
    LET keep == [output |-> output, stopped |-> stopped, pos |-> -1, exc |-> None]
    IN  CASE stop.kind = "none" -> keep
          [] stop.kind = "str" ->
                LET pos == rfind(output, stop.val, rfind_start)
                IN  IF pos # -1
                    THEN [output |-> output, stopped |-> TRUE,
                          pos |-> pos, exc |-> None]
                    ELSE keep
          [] stop.kind = "list" ->
                LET k == FirstStop(stop.val, 1, output, rfind_start)
                IN  IF k # 0
                    THEN LET pos == rfind(output, stop.val[k], rfind_start)
                         IN  [output |-> output, stopped |-> TRUE,
                              pos |-> pos, exc |-> None]
                    ELSE keep
          [] stop.kind = "invalid" -> [keep EXCEPT !.exc = "ValueError"]

\* the stop-string block (lines 233-247): the text, the flag and pos it
\* leaves, or the ValueError it raises.  stop is [kind, val] with kind
\* "none" (None, or any falsy value), "str", "list", or "invalid" (a truthy
\* value that is neither a string nor an Iterable).
StopStrCheck(stop, output, rfind_start, stopped) ==
    LET keep == [output |-> output, stopped |-> stopped, pos |-> -1, exc |-> None]
    IN  CASE stop.kind = "none" -> keep
          [] stop.kind = "str" ->
                LET pos == rfind(output, stop.val, rfind_start)
                IN  IF pos # -1
                    THEN [output |-> Prefix(output, pos), stopped |-> TRUE,
                          pos |-> pos, exc |-> None]
                    ELSE keep
          [] stop.kind = "list" ->
                LET k == FirstStop(stop.val, 1, output, rfind_start)
                IN  IF k # 0
                    THEN LET pos == rfind(output, stop.val[k], rfind_start)
                         IN  [output |-> Prefix(output, pos), stopped |-> TRUE,
                              pos |-> pos, exc |-> None]
                    ELSE keep
          [] stop.kind = "invalid" -> [keep EXCEPT !.exc = "ValueError"]

\* mutant: total_tokens one too high
Usage_TotalOffByOne(input_echo_len, i) ==
    [prompt_tokens |-> input_echo_len,
     completion_tokens |-> i,
     total_tokens |-> input_echo_len + i + 1]

\* mutant: completion_tokens counts the tokens generated so far
Usage_CountsTokens(input_echo_len, i) ==
    [prompt_tokens |-> input_echo_len,
     completion_tokens |-> i + 1,
     total_tokens |-> input_echo_len + i + 1]

\* the usage block of an event (lines 251-255, 272-276, 98-102, 110-114)
Usage(input_echo_len, i) ==
    [prompt_tokens |-> input_echo_len,
     completion_tokens |-> i,
     total_tokens |-> input_echo_len + i]

Event(text, input_echo_len, i, finish_reason) ==
    [text |-> text, usage |-> Usage(input_echo_len, i),
     finish_reason |-> finish_reason]

\* mutant: the budget test compares i with max_new_tokens
FinishReason_OffByOne(i, max_new_tokens, stopped) ==
    IF i = max_new_tokens THEN "length"
    ELSE IF stopped THEN "stop"
    ELSE None

\* finish_reason of the terminal event (lines 263-268)
FinishReason(i, max_new_tokens, stopped) ==
    IF i = max_new_tokens - 1 THEN "length"
    ELSE IF stopped THEN "stop"
    ELSE None

\* ------------------------------------------------------------------- state
VARIABLES
    params,     \* the request: prompt, decode parameters, stop, echo, ...
    server,     \* the ModelServer: model_name, stream_interval, context_len, ...
    gen,        \* the running generator: its position, locals, events yielded
    sgate,      \* generate_stream_gate consuming gen: what it has yielded
    ggate,      \* generate_gate consuming the same generator behaviour: its ret
    gen2,       \* a second generator instance on the same request
    rng,        \* the variates torch's default generator has handed out
    cancelled   \* a cancellation flag the hosting layer may set

vars == <<params, server, gen, sgate, ggate, gen2, rng, cancelled>>

\* the sampling parameters of a request
SP(p) == [temperature |-> p.temperature,
          repetition_penalty |-> p.repetition_penalty,
          top_p |-> p.top_p, top_k |-> p.top_k]

\* a generator that has not run yet.  No local is bound: each field holds
\* a placeholder of its type, and the loop variable i holds -1 until the
\* for statement binds it (IsUnbound).  Besides the locals it keeps what it
\* has done: events (what it yielded), calls (the arguments of every scorer
\* call), pipeline (how the logits pipeline was last called), exc and
\* exc_msg (what it raised).
NewGen ==
    [pc |-> "start", exc |-> None, events |-> <<>>,
     scorer_calls |-> 0, encoder_calls |-> 0,
     stop_token_ids |-> <<>>, input_ids |-> <<>>,
     input_echo_len |-> 0, output_ids |-> <<>>,
     past_key_values |-> 0, i |-> -1, token |-> -1,
     stopped |-> FALSE, output |-> <<>>, pos |-> -1,
     query |-> <<>>, history |-> <<>>, response |-> <<>>, logits |-> <<>>,
     exc_msg |-> "", calls |-> <<>>, logits_processor |-> <<>>,
     pipeline |-> [called |-> FALSE, with_ids |-> FALSE, ids |-> <<>>]]

IsUnbound(i) == i < 0

Raise(g, exc) == [g EXCEPT !.pc = "raised", !.exc = exc]

\* ------------------------------------------- generate_stream (lines 121-281)
\* lines 124-161, up to the loop; model.encoder has returned when the model
\* is an encoder-decoder
GenSetup(g, p, srv) ==
    LET ids == Encode(p.prompt)
        max_src_len == MaxSrcLen(srv.is_encoder_decoder, srv.context_len,
                                 p.max_new_tokens)
    IN  [g EXCEPT
            !.pc = IF p.max_new_tokens >= 1 THEN "loop" ELSE "finish",
            !.stop_token_ids = StopTokenIds(p.stop_token_ids),
            !.input_echo_len = Len(ids),
            !.output_ids = ids,
            !.input_ids = LastSlice(ids, max_src_len),
            !.encoder_calls = IF srv.is_encoder_decoder THEN 1 ELSE 0,
            !.logits_processor = prepare_logits_processor(
                p.temperature, p.repetition_penalty, p.top_p, p.top_k),
            !.past_key_values = 0]

\* the request after lines 133-134: a non-empty list the caller passed is
\* the very list eos_token_id is appended to; an absent, None or empty one
\* is replaced by a fresh list and stays as it was
ParamsAfterSetup(p) ==
    [p EXCEPT !.stop_token_ids =
        IF p.stop_token_ids = <<>> THEN <<>> ELSE StopTokenIds(p.stop_token_ids)]

\* the same lines when model.encoder raises exc
GenSetupRaise(g, p, srv, exc) ==
    Raise([g EXCEPT
            !.stop_token_ids = StopTokenIds(p.stop_token_ids),
            !.input_echo_len = Len(Encode(p.prompt)),
            !.output_ids = Encode(p.prompt),
            !.logits_processor = prepare_logits_processor(
                p.temperature, p.repetition_penalty, p.top_p, p.top_k),
            !.encoder_calls = 1], exc)

\* the index the for statement of line 162 binds next
NextIndex(g) == IF IsUnbound(g.i) THEN 0 ELSE g.i + 1

\* model.generation_config.decoder_start_token_id (line 156)
decoder_start_token_id == 0

\* mutant: every call after the first is given the whole buffer again
ScorerCall_FullHistory(g, srv, i) ==
    [input_ids |-> IF i = 0
                   THEN (IF srv.is_encoder_decoder
                         THEN <<decoder_start_token_id>> ELSE g.input_ids)
                   ELSE g.output_ids,
     past_key_values |-> IF i = 0 THEN 0 ELSE g.past_key_values,
     encoder_input |-> IF srv.is_encoder_decoder THEN g.input_ids ELSE <<>>]

\* the arguments of the scorer call of step i (lines 163-192): the ids, the
\* cache (0 when none is passed) and, for an encoder-decoder, the ids
\* whose encoding is passed as encoder_hidden_states
ScorerCall(g, srv, i) ==
    [input_ids |-> IF i = 0
                   THEN (IF srv.is_encoder_decoder
                         THEN <<decoder_start_token_id>> ELSE g.input_ids)
                   ELSE <<g.token>>,
     past_key_values |-> IF i = 0 THEN 0 ELSE g.past_key_values,
     encoder_input |-> IF srv.is_encoder_decoder THEN g.input_ids ELSE <<>>]

\* one iteration whose scorer call (lines 163-192) raises exc
GenStepRaise(g, srv, exc) ==
    Raise([g EXCEPT !.i = NextIndex(g),
                    !.calls = Append(g.calls, ScorerCall(g, srv, NextIndex(g))),
                    !.scorer_calls = g.scorer_calls + 1], exc)

\* mutant: the loop runs one iteration short
AfterStep_OneShort(i, max_new_tokens, stopped) ==
    IF stopped THEN "finish"
    ELSE IF i + 2 >= max_new_tokens THEN "finish"
    ELSE "loop"

\* position after an iteration (lines 259-260 and the for statement)
AfterStep(i, max_new_tokens, stopped) ==
    IF stopped THEN "finish"
    ELSE IF i + 1 >= max_new_tokens THEN "finish"
    ELSE "loop"

\* one iteration (lines 162-260) in which the scorer returns logits and the
\* selection returns token
GenStep(g, p, srv, logits, token) ==
    LET i == NextIndex(g)
        output_ids == Append(g.output_ids, token)
        stopped0 == TokenStop(token, g.stop_token_ids)
        rfind_start == RfindStart(p.echo, Len(p.prompt))
        decoded == Decode(TmpOutputIds(p.echo, output_ids, g.input_echo_len))
        chk == StopStrCheck(p.stop, decoded, rfind_start, stopped0)
        scored == [g EXCEPT !.i = i,
                            !.calls = Append(g.calls, ScorerCall(g, srv, i)),
                            !.pipeline = PipelineCall(SP(p), g.output_ids),
                            !.scorer_calls = g.scorer_calls + 1,
                            !.past_key_values = g.scorer_calls + 1,
                            !.token = token,
                            !.output_ids = output_ids]
    IN  IF EmitCond(i, p.max_new_tokens, srv.stream_interval, stopped0)
        THEN IF chk.exc # None
             THEN Raise([scored EXCEPT !.stopped = stopped0,
                                       !.output = decoded,
                                       !.exc_msg = "Invalid stop field type."],
                        chk.exc)
             ELSE [scored EXCEPT
                     !.stopped = chk.stopped,
                     !.output = chk.output,
                     !.pos = IF p.stop.kind = "none" THEN g.pos ELSE chk.pos,
                     !.events = Append(g.events,
                         Event(chk.output, g.input_echo_len, i, None)),
                     !.pc = AfterStep(i, p.max_new_tokens, chk.stopped)]
        ELSE [scored EXCEPT
                !.stopped = stopped0,
                !.pc = AfterStep(i, p.max_new_tokens, stopped0)]

\* the token the selection of this iteration returns under variate u
GenToken(g, p, logits, u) ==
    Select(SP(p), LastTokenLogits(SP(p), g.output_ids, logits), u)

\* lines 262-281: the terminal event; reading i raises UnboundLocalError
\* when the loop body never ran
GenFinish(g, p) ==
    IF IsUnbound(g.i) THEN Raise(g, "UnboundLocalError")
    ELSE [g EXCEPT
            !.pc = "done",
            !.events = Append(g.events,
                Event(g.output, g.input_echo_len, g.i,
                      FinishReason(g.i, p.max_new_tokens, g.stopped)))]

\* ----------------------------------- chatglm_generate_stream (lines 50-117)
\* The fixed pieces of the round template are single symbols: "R" for
\* "[Round {}]\n<ask>", "A" for "\n<answer>", "N" for the closing newline,
\* "K" for the canned acknowledgement of a system message.
CannedAck == <<"K">>

\* the loop over the messages left after the pop (lines 71-82): the history
\* it builds, or the ValueError of an unknown role
RECURSIVE BuildHistory(_, _, _, _)
BuildHistory(messages, k, question, history) ==
    IF k > Len(messages) THEN [history |-> history, exc |-> None]
    ELSE LET role == messages[k].role
             content == messages[k].content
         IN  IF role = "user"
             THEN BuildHistory(messages, k + 1, content, history)
             ELSE IF role \in {"assistant", "AI", "system"}
             THEN IF role = "system"
                  THEN BuildHistory(messages, k + 1, question,
                                    Append(history, <<content, CannedAck>>))
                  ELSE BuildHistory(messages, k + 1, question,
                                    Append(history, <<question, content>>))
             ELSE [history |-> history, exc |-> "ValueError"]

\* the prompt text of chatglm_stream_token_num (lines 39-45)
RECURSIVE Rounds(_, _)
Rounds(history, k) ==
    IF k > Len(history) THEN <<>>
    ELSE <<"R">> \o history[k][1] \o <<"A">> \o history[k][2] \o <<"N">>
         \o Rounds(history, k + 1)

ChatPrompt(query, history) ==
    IF history = <<>> THEN query
    ELSE Rounds(history, 1) \o <<"R">> \o query \o <<"A">>

\* one token per symbol of the prompt (lines 46-47)
chatglm_stream_token_num(query, history) == Len(ChatPrompt(query, history))

\* query and the messages iterated (lines 68-84)
ChatQuery(p) ==
    IF p.prompt_is_list THEN Last(p.messages).content ELSE p.prompt

ChatParsed(p) ==
    IF p.prompt_is_list
    THEN BuildHistory(Prefix(p.messages, Len(p.messages) - 1), 1, <<>>, <<>>)
    ELSE [history |-> <<>>, exc |-> None]

\* the request after line 69: generate_prompt hands the caller's own list
\* on (lines 326-327), and messages.pop() removes its last message
ChatParamsAfterSetup(p) ==
    IF p.prompt_is_list
    THEN [p EXCEPT !.messages = Prefix(p.messages, Len(p.messages) - 1)]
    ELSE p

\* lines 53-86
ChatSetup(g, p) ==
    LET parsed == ChatParsed(p)
    IN  IF parsed.exc # None
        THEN Raise([g EXCEPT !.query = ChatQuery(p),
                             !.exc_msg = "Unknown role"], parsed.exc)
        ELSE [g EXCEPT
                !.pc = "loop",
                !.query = ChatQuery(p),
                !.history = parsed.history,
                !.input_echo_len =
                    chatglm_stream_token_num(ChatQuery(p), parsed.history)]

\* output of one response (lines 91-94)
ChatOutput(echo, query, response) ==
    IF echo THEN query \o <<" ">> \o response ELSE response

\* one response of model.stream_chat handled (lines 88-104)
ChatStep(g, p, response) ==
    LET i == NextIndex(g)
        output == ChatOutput(p.echo, g.query, response)
    IN  [g EXCEPT
            !.i = i,
            !.scorer_calls = g.scorer_calls + 1,
            !.output = output,
            !.response = response,
            !.events = Append(g.events,
                              Event(output, g.input_echo_len, i, None))]

\* model.stream_chat raises exc while producing its next response
ChatStepRaise(g, exc) ==
    Raise([g EXCEPT !.scorer_calls = g.scorer_calls + 1], exc)

\* lines 106-117, model.stream_chat exhausted
ChatFinish(g) ==
    [g EXCEPT
        !.pc = "done",
        !.events = Append(g.events,
                          Event(g.output, g.input_echo_len, g.i, "stop"))]

\* ------------------------------------------------ ModelServer (lines 284-418)
\* constants.ErrorCode
CUDA_OUT_OF_MEMORY == 50002

INTERNAL_ERROR == 50001

IsChatGLM(srv) == srv.model_name = "chatglm"

\* mutant: only the out-of-memory clause
Caught_OnlyOutOfMemory(exc) == exc \in {"OutOfMemoryError"}

\* the except clauses of both gates (lines 370-382, 407-417): the exception
\* types they catch
Caught(exc) == exc \in {"OutOfMemoryError", "ValueError", "RuntimeError"}

ErrorCodeOf(exc) ==
    IF exc = "OutOfMemoryError" THEN CUDA_OUT_OF_MEMORY ELSE INTERNAL_ERROR

ErrorRet(exc) ==
    [text |-> <<"server_error_msg", exc>>, error_code |-> ErrorCodeOf(exc)]

\* ret of generate_stream_gate for one output of the generator (358-367)
Forward(output) ==
    [text |-> output.text, error_code |-> 0,
     usage |-> output.usage, finish_reason |-> output.finish_reason]

\* the events the generator yielded in going from g to gn
Added(g, gn) == SubSeq(gn.events, Len(g.events) + 1, Len(gn.events))

NewSGate == [pc |-> "running", out |-> <<>>]

\* generate_stream_gate (lines 345-382) across one generator transition
SGateNext(sg, g, gn) ==
    LET added == Added(g, gn)
        fwd == [k \in 1..Len(added) |-> Forward(added[k])]
    IN  IF gn.pc = "raised"
        THEN IF Caught(gn.exc)
             THEN [pc |-> "ended", out |-> sg.out \o fwd \o <<ErrorRet(gn.exc)>>]
             ELSE [pc |-> "raised", out |-> sg.out \o fwd]
        ELSE [pc |-> IF gn.pc = "done" THEN "ended" ELSE "running",
              out |-> sg.out \o fwd]

\* generate_gate before its loop (line 389); output holds the last output
\* of the for statement, <<>> while unbound
NewGGate ==
    [pc |-> "running", ret |-> [text |-> <<>>, error_code |-> 0],
     output |-> <<>>]

\* mutant: finish_reason is not copied
Collect_NoFinishReason(ret, output) ==
    [text |-> ret.text, error_code |-> ret.error_code, usage |-> output.usage]

\* ret after the loop of generate_gate (lines 400-405)
Collect(ret, output) ==
    [text |-> ret.text, error_code |-> ret.error_code,
     usage |-> output.usage, finish_reason |-> output.finish_reason]

\* generate_gate (lines 384-418) across one generator transition
GGateNext(gg, g, gn) ==
    LET added == Added(g, gn)
        ret == IF added # <<>>
               THEN [gg.ret EXCEPT !.text = Last(added).text] ELSE gg.ret
        output == IF added # <<>> THEN <<Last(added)>> ELSE gg.output
    IN  IF gn.pc = "raised"
        THEN IF Caught(gn.exc)
             THEN [pc |-> "returned", ret |-> ErrorRet(gn.exc), output |-> output]
             ELSE [pc |-> "raised", ret |-> ret, output |-> output]
        ELSE IF gn.pc = "done"
        THEN [pc |-> "returned", ret |-> Collect(ret, output[1]),
              output |-> output]
        ELSE [pc |-> "running", ret |-> ret, output |-> output]

\* ------------------------------------------------------------------ inputs
Zero == Rat(0, 1)

Half == Rat(1, 2)

Two == Rat(2, 1)

\* what the scorer can return for one position
Logits == [Vocab -> {-4, 0, 4}]

\* what a failing scorer call raises: torch.cuda.OutOfMemoryError, or any
\* other RuntimeError or ValueError
ScorerExc == {"OutOfMemoryError", "RuntimeError", "ValueError"}

NoStop == [kind |-> "none", val |-> <<>>]

Stops ==
    { NoStop,
      [kind |-> "str", val |-> <<"b">>],
      [kind |-> "list", val |-> << <<"b">>, <<"a", "b">> >>],
      [kind |-> "invalid", val |-> <<>>] }

Prompts == { <<"a", "b">>, <<"b", "S">> }

DefaultSampling ==
    [temperature |-> One, repetition_penalty |-> One, top_p |-> One, top_k |-> -1]

GreedySampling == [DefaultSampling EXCEPT !.temperature = Zero]

\* params["prompt"] is a string (prompt) or a list of messages (messages);
\* prompt_is_list tells which, and the other field is empty
Request(prompt, messages, sp, max_new_tokens, stop, echo, stop_token_ids) ==
    [prompt |-> prompt, messages |-> messages,
     prompt_is_list |-> messages # <<>>,
     temperature |-> sp.temperature,
     repetition_penalty |-> sp.repetition_penalty,
     top_p |-> sp.top_p, top_k |-> sp.top_k,
     max_new_tokens |-> max_new_tokens, stop |-> stop, echo |-> echo,
     stop_token_ids |-> stop_token_ids]

\* requests served by generate_stream
Requests ==
    { Request(prompt, <<>>, sp, n, stop, echo, ids) :
        prompt \in Prompts, sp \in {DefaultSampling, GreedySampling},
        n \in 0..MaxNewTokens, stop \in Stops, echo \in BOOLEAN,
        ids \in {<<>>, <<1>>} }

Msg(role, content) == [role |-> role, content |-> content]

ChatPrompts ==
    { << Msg("user", <<"a">>) >>,
      << Msg("system", <<"b">>), Msg("user", <<"a">>) >>,
      << Msg("user", <<"a">>), Msg("assistant", <<"b">>), Msg("user", <<"b">>) >>,
      << Msg("tool", <<"b">>), Msg("user", <<"a">>) >> }

\* requests served by chatglm_generate_stream
ChatRequests ==
    { Request(<<"a">>, <<>>, DefaultSampling, n, NoStop, echo, <<>>) :
        n \in {1}, echo \in BOOLEAN }
    \cup
    { Request(<<>>, msgs, DefaultSampling, n, NoStop, echo, <<>>) :
        msgs \in ChatPrompts, n \in {1}, echo \in BOOLEAN }

\* context_len 10 leaves max_src_len = 2 - max_new_tokens for a decoder-only
\* model: above, at and below the length of a prompt
Servers ==
    { [model_name |-> "llama", stream_interval |-> si, context_len |-> 2048,
       is_encoder_decoder |-> ed] : si \in 1..MaxInterval, ed \in BOOLEAN }
    \cup
    { [model_name |-> "llama", stream_interval |-> si, context_len |-> 10,
       is_encoder_decoder |-> FALSE] : si \in 1..MaxInterval }

ChatServers ==
    { [model_name |-> "chatglm", stream_interval |-> 2, context_len |-> 2048,
       is_encoder_decoder |-> FALSE] }

\* ---------------------------------------------------------- specification
Init ==
    /\ \/ params \in Requests /\ server \in Servers
       \/ params \in ChatRequests /\ server \in ChatServers
    /\ gen = NewGen
    /\ sgate = NewSGate
    /\ ggate = NewGGate
    /\ gen2 = NewGen
    /\ rng = <<>>
    /\ cancelled = FALSE

\* the generator moves to gn and leaves the request as pn and the default
\* generator as rn; both gates see what it yielded or raised
MoveAll(gn, pn, rn) ==
    /\ gen' = gn
    /\ params' = pn
    /\ rng' = rn
    /\ sgate' = SGateNext(sgate, gen, gn)
    /\ ggate' = GGateNext(ggate, gen, gn)
    /\ UNCHANGED <<server, gen2, cancelled>>

MoveWith(gn, pn) == MoveAll(gn, pn, rng)

Move(gn) == MoveWith(gn, params)

Setup ==
    /\ gen.pc = "start"
    /\ ~IsChatGLM(server)
    /\ MoveWith(GenSetup(gen, params, server), ParamsAfterSetup(params))

SetupFails ==
    /\ gen.pc = "start"
    /\ ~IsChatGLM(server)
    /\ server.is_encoder_decoder
    /\ \E exc \in ScorerExc :
         MoveWith(GenSetupRaise(gen, params, server, exc), ParamsAfterSetup(params))

Step ==
    /\ gen.pc = "loop"
    /\ ~IsChatGLM(server)
    /\ \E logits \in Logits, u \in VariatesOf(SP(params)) :
         MoveAll(GenStep(gen, params, server, logits,
                         GenToken(gen, params, logits, u)),
                 params, RngAfter(SP(params), rng, u))

StepFails ==
    /\ gen.pc = "loop"
    /\ ~IsChatGLM(server)
    /\ \E exc \in ScorerExc : Move(GenStepRaise(gen, server, exc))

Finish ==
    /\ gen.pc = "finish"
    /\ ~IsChatGLM(server)
    /\ Move(GenFinish(gen, params))

ChatStart ==
    /\ gen.pc = "start"
    /\ IsChatGLM(server)
    /\ MoveWith(ChatSetup(gen, params), ChatParamsAfterSetup(params))

ChatNext ==
    /\ gen.pc = "loop"
    /\ IsChatGLM(server)
    /\ NextIndex(gen) < MaxChatSteps
    /\ \E c \in {"a", "b"} : Move(ChatStep(gen, params, Append(gen.response, c)))

ChatFails ==
    /\ gen.pc = "loop"
    /\ IsChatGLM(server)
    /\ \E exc \in ScorerExc : Move(ChatStepRaise(gen, exc))

\* model.stream_chat yields at least one response before it is exhausted
ChatEnd ==
    /\ gen.pc = "loop"
    /\ IsChatGLM(server)
    /\ ~IsUnbound(gen.i)
    /\ Move(ChatFinish(gen))

Next ==
    \/ Setup
    \/ SetupFails
    \/ Step
    \/ StepFails
    \/ Finish
    \/ ChatStart
    \/ ChatNext
    \/ ChatFails
    \/ ChatEnd

Spec == Init /\ [][Next]_vars

\* ------------------------------------------------- two runs, one request
\* gen and gen2 are two generate_stream runs on the same request and the
\* same server, given the same scorer output at every step; each makes its
\* own selection.  The scorer output of the step is kept in logits.
SamplingAll ==
    { [temperature |-> t, repetition_penalty |-> r, top_p |-> tp, top_k |-> k] :
        t \in {Zero, One, Two}, r \in {One, Two},
        tp \in {Zero, Half, One}, k \in {-1, 2} }

\* every parameter combination that takes the branch of line 208, and the
\* default parameters, which take the branch of lines 210-211
PairSampling ==
    {sp \in SamplingAll : RLt(sp.temperature, Eps5) \/ RLt(sp.top_p, Eps8)}
    \cup {DefaultSampling}

PairRequests ==
    { Request(<<"a", "b">>, <<>>, sp, n, stop, FALSE, <<>>) :
        sp \in PairSampling, n \in 1..MaxPairTokens,
        stop \in {NoStop, [kind |-> "str", val |-> <<"b">>]} }

PairServers ==
    { [model_name |-> "llama", stream_interval |-> si, context_len |-> 2048,
       is_encoder_decoder |-> FALSE] : si \in {1, 2} }

PairInit ==
    /\ params \in PairRequests
    /\ server \in PairServers
    /\ gen = NewGen
    /\ gen2 = NewGen
    /\ sgate = NewSGate
    /\ ggate = NewGGate
    /\ rng = <<>>
    /\ cancelled = FALSE

PairSetup ==
    /\ gen.pc = "start"
    /\ gen2.pc = "start"
    /\ gen' = GenSetup(gen, params, server)
    /\ gen2' = GenSetup(gen2, ParamsAfterSetup(params), server)
    /\ params' = ParamsAfterSetup(ParamsAfterSetup(params))
    /\ UNCHANGED <<server, sgate, ggate, rng, cancelled>>

\* the runs are stepped together for as long as they agree
PairStep ==
    /\ gen.pc = "loop"
    /\ gen2.pc = "loop"
    /\ gen.output_ids = gen2.output_ids
    /\ \E logits \in Logits, u \in VariatesOf(SP(params)),
          u2 \in VariatesOf(SP(params)) :
            /\ gen' = [GenStep(gen, params, server, logits,
                                GenToken(gen, params, logits, u))
                          EXCEPT !.logits = logits]
            /\ gen2' = [GenStep(gen2, params, server, logits,
                                 GenToken(gen2, params, logits, u2))
                          EXCEPT !.logits = logits]
            /\ rng' = RngAfter(SP(params), RngAfter(SP(params), rng, u), u2)
    /\ UNCHANGED <<params, server, sgate, ggate, cancelled>>

PairStepFails ==
    /\ gen.pc = "loop"
    /\ gen2.pc = "loop"
    /\ gen.output_ids = gen2.output_ids
    /\ \E exc \in ScorerExc :
            /\ gen' = GenStepRaise(gen, server, exc)
            /\ gen2' = GenStepRaise(gen2, server, exc)
    /\ UNCHANGED <<params, server, sgate, ggate, rng, cancelled>>

PairFinish ==
    /\ gen.pc = "finish"
    /\ gen' = GenFinish(gen, params)
    /\ gen2' = IF gen2.pc = "finish" THEN GenFinish(gen2, params) ELSE gen2
    /\ UNCHANGED <<params, server, sgate, ggate, rng, cancelled>>

PairFinish2 ==
    /\ gen2.pc = "finish"
    /\ gen.pc # "finish"
    /\ gen2' = GenFinish(gen2, params)
    /\ UNCHANGED <<params, server, sgate, ggate, gen, rng, cancelled>>

PairNext ==
    \/ PairSetup
    \/ PairStep
    \/ PairStepFails
    \/ PairFinish
    \/ PairFinish2

SpecPair == PairInit /\ [][PairNext]_vars

\* ------------------------------------- one step, every parameter setting
\* One-step runs of generate_stream over the sampling parameters: each of
\* the four thresholds of prepare_logits_processor from both sides, and
\* temperature at 1e-5 itself and just below it.
ProcSampling ==
    SamplingAll
    \cup
    { [temperature |-> t, repetition_penalty |-> r, top_p |-> tp, top_k |-> k] :
        t \in {Eps5, Rat(1, 200000)}, r \in {Half, One, Two},
        tp \in {Zero, One}, k \in {-1, 0, 2} }

ProcRequests ==
    { Request(<<"a", "b">>, <<>>, sp, 1, NoStop, FALSE, <<>>) :
        sp \in ProcSampling }

ProcInit ==
    /\ params \in ProcRequests
    /\ server \in PairServers
    /\ gen = NewGen
    /\ sgate = NewSGate
    /\ ggate = NewGGate
    /\ gen2 = NewGen
    /\ rng = <<>>
    /\ cancelled = FALSE

ProcNext ==
    \/ Setup
    \/ Step
    \/ Finish

SpecProc == ProcInit /\ [][ProcNext]_vars

\* ------------------------------------------ a run and a cancellation flag
\* The hosting layer sets cancelled at any moment of a generate_stream run.
\* No statement of generate_stream or of the gates reads such a flag: the
\* actions of the run are those of Spec.
CancelRequests ==
    {r \in Requests : /\ r.prompt = <<"a", "b">>
                      /\ r.stop.kind \in {"none", "str"}
                      /\ r.stop_token_ids = <<>>}

CancelInit ==
    /\ params \in CancelRequests
    /\ server \in Servers
    /\ gen = NewGen
    /\ sgate = NewSGate
    /\ ggate = NewGGate
    /\ gen2 = NewGen
    /\ rng = <<>>
    /\ cancelled = FALSE

Cancel ==
    /\ ~cancelled
    /\ gen.pc \in {"start", "loop", "finish"}
    /\ cancelled' = TRUE
    /\ UNCHANGED <<params, server, gen, sgate, ggate, gen2, rng>>

CancelNext ==
    \/ Cancel
    \/ Setup
    \/ SetupFails
    \/ Step
    \/ StepFails
    \/ Finish

SpecCancel == CancelInit /\ [][CancelNext]_vars

\* ------------------------------------------- two runs, one random source
\* gen and gen2 are two generate_stream runs of one process, interleaved
\* at their scorer calls; both draw from the default generator rng.  The
\* scorer output of a run's latest step is kept in its logits.
RngSampling == {DefaultSampling, [DefaultSampling EXCEPT !.top_k = 2]}

RngLogits ==
    { [t \in Vocab |-> 0],
      [t \in Vocab |-> CASE t = 0 -> -4 [] t = 1 -> 0 [] t = 2 -> 4] }

RngRequests ==
    { Request(<<"a", "b">>, <<>>, sp, n, NoStop, FALSE, <<>>) :
        sp \in RngSampling, n \in 1..MaxRngTokens }

RngServers ==
    { [model_name |-> "llama", stream_interval |-> 2, context_len |-> 2048,
       is_encoder_decoder |-> FALSE] }

RngInit ==
    /\ params \in RngRequests
    /\ server \in RngServers
    /\ gen = NewGen
    /\ gen2 = NewGen
    /\ sgate = NewSGate
    /\ ggate = NewGGate
    /\ rng = <<>>
    /\ cancelled = FALSE

RngSetup ==
    /\ gen.pc = "start"
    /\ gen' = GenSetup(gen, params, server)
    /\ params' = ParamsAfterSetup(params)
    /\ UNCHANGED <<server, sgate, ggate, gen2, rng, cancelled>>

RngSetup2 ==
    /\ gen2.pc = "start"
    /\ gen2' = GenSetup(gen2, params, server)
    /\ params' = ParamsAfterSetup(params)
    /\ UNCHANGED <<server, sgate, ggate, gen, rng, cancelled>>

RngStep ==
    /\ gen.pc = "loop"
    /\ \E logits \in RngLogits, u \in VariatesOf(SP(params)) :
          /\ gen' = [GenStep(gen, params, server, logits,
                              GenToken(gen, params, logits, u))
                        EXCEPT !.logits = logits]
          /\ rng' = RngAfter(SP(params), rng, u)
    /\ UNCHANGED <<params, server, sgate, ggate, gen2, cancelled>>

RngStep2 ==
    /\ gen2.pc = "loop"
    /\ \E logits \in RngLogits, u \in VariatesOf(SP(params)) :
          /\ gen2' = [GenStep(gen2, params, server, logits,
                               GenToken(gen2, params, logits, u))
                         EXCEPT !.logits = logits]
          /\ rng' = RngAfter(SP(params), rng, u)
    /\ UNCHANGED <<params, server, sgate, ggate, gen, cancelled>>

RngFinish ==
    /\ gen.pc = "finish"
    /\ gen' = GenFinish(gen, params)
    /\ UNCHANGED <<params, server, sgate, ggate, gen2, rng, cancelled>>

RngFinish2 ==
    /\ gen2.pc = "finish"
    /\ gen2' = GenFinish(gen2, params)
    /\ UNCHANGED <<params, server, sgate, ggate, gen, rng, cancelled>>

RngNext ==
    \/ RngSetup
    \/ RngSetup2
    \/ RngStep
    \/ RngStep2
    \/ RngFinish
    \/ RngFinish2

SpecRng == RngInit /\ [][RngNext]_vars

\* ================================================================== claims
Llama == ~IsChatGLM(server)

\* the generated part of the token buffer
Generated(g) == Suffix(g.output_ids, g.input_echo_len)

\* the stop token ids of the request as the claims state them: what the
\* caller passed, and the end-of-sequence id in every case
ClaimedStopIds == Range(params.stop_token_ids) \cup {eos_token_id}

\* rfind_start as the claims state it
ClaimedRfindStart == IF params.echo THEN Len(params.prompt) ELSE 0

\* the stop strings of a well-typed stop field
StopStrings ==
    CASE params.stop.kind = "str" -> {params.stop.val}
      [] params.stop.kind = "list" -> Range(params.stop.val)
      [] OTHER -> {}

\* the whole text the token buffer decodes to, before any truncation
FullText(g) ==
    Decode(IF params.echo THEN g.output_ids ELSE Generated(g))

\* C1: in a stream that completes, finish_reason is None on every event but
\* the last, and the last event's finish_reason is "stop" or "length"; while
\* the stream runs every event yielded so far carries None.  Holds for both
\* loop variants and for what generate_stream_gate forwards.
C1_FinishReasonOnLastOnly ==
    /\ \A k \in 1..Len(gen.events) :
          (k < Len(gen.events) \/ gen.pc # "done")
             => gen.events[k].finish_reason = None
    /\ gen.pc = "done" =>
          /\ gen.events # <<>>
          /\ Last(gen.events).finish_reason \in {"stop", "length"}
          /\ Len(sgate.out) = Len(gen.events)
          /\ \A k \in 1..Len(sgate.out) :
                sgate.out[k].finish_reason = gen.events[k].finish_reason

C1_Witness ==
    /\ Llama
    /\ gen.pc = "done"
    /\ params.max_new_tokens = MaxNewTokens
    /\ Len(gen.events) >= 3
    /\ Last(gen.events).finish_reason = "stop"

\* C2: on every event of either loop variant prompt_tokens +
\* completion_tokens = total_tokens, and prompt_tokens is the same on every
\* event of the generation.
C2_UsageAddsUp ==
    \A k \in 1..Len(gen.events) :
       /\ gen.events[k].usage.prompt_tokens + gen.events[k].usage.completion_tokens
             = gen.events[k].usage.total_tokens
       /\ gen.events[k].usage.prompt_tokens = gen.events[1].usage.prompt_tokens

C2_Witness ==
    /\ gen.pc = "done"
    /\ Len(gen.events) >= 3
    /\ Last(gen.events).usage.completion_tokens >= 1
    /\ Last(gen.events).usage.prompt_tokens >= 1

\* the token of the latest step is a stop token
C3_StopTokenSeen ==
    /\ Llama
    /\ gen.token \in ClaimedStopIds
    /\ gen.pc \in {"loop", "finish", "done", "raised"}

C3_StopTokenHolds ==
    C3_StopTokenSeen =>
       /\ gen.pc \in {"finish", "done", "raised"}
       /\ gen.scorer_calls = gen.i + 1
       /\ Len(Generated(gen)) = gen.i + 1
       /\ params.stop.kind # "invalid" =>
             /\ gen.pc \in {"finish", "done"}
             /\ LET n == IF gen.pc = "done" THEN Len(gen.events) - 1
                         ELSE Len(gen.events)
                IN  /\ n >= 1
                    /\ gen.events[n].usage.completion_tokens = gen.i
                    /\ gen.events[n].finish_reason = None

\* C3: when the token selected at step i is a stop token (an id the caller
\* listed, or the end-of-sequence id), the loop has ended at step i, the
\* scorer has been invoked i + 1 times and is never invoked again, and, the
\* stop field being of a valid type, the last event of the loop is the one
\* of step i.
C3_StopTokenShortCircuit ==
    /\ []C3_StopTokenHolds
    /\ [][C3_StopTokenSeen => gen'.scorer_calls = gen.scorer_calls]_vars

C3_Witness ==
    /\ C3_StopTokenSeen
    /\ gen.pc = "done"
    /\ gen.i = 1
    /\ gen.i < params.max_new_tokens - 1
    /\ server.stream_interval = 2
    /\ gen.token = 1

\* a completed run in which no stop condition was met
C4_NoStopCondition ==
    /\ Llama
    /\ gen.pc = "done"
    /\ params.max_new_tokens >= 1
    /\ \A k \in 1..Len(Generated(gen)) : Generated(gen)[k] \notin ClaimedStopIds
    /\ \A each \in StopStrings :
          rfind(FullText(gen), each, ClaimedRfindStart) = -1

\* C4: a generate_stream run with max_new_tokens = N >= 1 that completes
\* with no generated token a stop token and no stop string in its text from
\* rfind_start on has run exactly N steps: N scorer invocations, N tokens
\* appended, and a terminal event whose finish_reason is "length".
C4_BudgetExhaustion ==
    C4_NoStopCondition =>
       /\ gen.scorer_calls = params.max_new_tokens
       /\ gen.i = params.max_new_tokens - 1
       /\ Len(Generated(gen)) = params.max_new_tokens
       /\ Last(gen.events).finish_reason = "length"

C4_Witness ==
    /\ C4_NoStopCondition
    /\ params.max_new_tokens = MaxNewTokens
    /\ params.stop.kind = "str"
    /\ server.stream_interval = 2

\* echo is on and every occurrence of a stop string starts in the echoed prompt
C5_OnlyInsideEchoedPrompt ==
    /\ params.echo
    /\ StopStrings # {}
    /\ \A each \in StopStrings :
          \A p \in Occurrences(FullText(gen), each, 0) :
             p < Len(Decode(Encode(params.prompt)))

\* C5: a stop-string truncation leaves a text no shorter than rfind_start
\* (the length of the prompt text with echo, 0 without); and with echo, as
\* long as every occurrence of every stop string in the text starts inside
\* the echoed prompt, no truncation has happened and stopped is set by the
\* token-level check alone.
C5_TruncationRespectsRfindStart ==
    (Llama /\ gen.pc \in {"loop", "finish", "done"} /\ ~IsUnbound(gen.i)) =>
       /\ gen.pos # -1 =>
             /\ gen.pos >= ClaimedRfindStart
             /\ Len(gen.output) >= ClaimedRfindStart
             /\ Len(Last(gen.events).text) >= ClaimedRfindStart
       /\ C5_OnlyInsideEchoedPrompt =>
             /\ gen.pos = -1
             /\ gen.stopped = (gen.token \in ClaimedStopIds)
             /\ gen.output = Prefix(FullText(gen), Len(gen.output))
             /\ \A k \in 1..Len(gen.events) :
                   Len(gen.events[k].text) >= Len(Decode(Encode(params.prompt)))

C5_Witness ==
    /\ Llama
    /\ gen.pc = "done"
    /\ C5_OnlyInsideEchoedPrompt
    /\ Occurrences(FullText(gen), <<"b">>, 0) # {}
    /\ Len(Generated(gen)) = MaxNewTokens
    /\ Len(FullText(gen)) > Len(params.prompt)

\* the generator has raised an out-of-memory error, another RuntimeError or
\* a ValueError
C6_Failed == gen.pc = "raised" /\ gen.exc \in ScorerExc

C6_StreamAfterFailure ==
    C6_Failed =>
       /\ sgate.pc = "ended"
       /\ Len(sgate.out) = Len(gen.events) + 1
       /\ \A k \in 1..Len(gen.events) :
             /\ sgate.out[k].error_code = 0
             /\ sgate.out[k].text = gen.events[k].text
             /\ sgate.out[k].usage = gen.events[k].usage
             /\ sgate.out[k].finish_reason = gen.events[k].finish_reason
       /\ Last(sgate.out).error_code # 0
       /\ Last(sgate.out).error_code =
             (IF gen.exc = "OutOfMemoryError" THEN CUDA_OUT_OF_MEMORY
              ELSE INTERNAL_ERROR)

\* C6: when the generator raises an out-of-memory error, any other
\* RuntimeError or a ValueError, what generate_stream_gate has yielded is
\* every event yielded before the failure, forwarded with error_code 0, then
\* one event with the non-zero error_code of the failure
\* (CUDA_OUT_OF_MEMORY for out-of-memory, INTERNAL_ERROR otherwise); the
\* stream has ended, and the scorer is not invoked again.
C6_ErrorEndsStream ==
    /\ []C6_StreamAfterFailure
    /\ [][C6_Failed => /\ gen'.scorer_calls = gen.scorer_calls
                       /\ sgate' = sgate]_vars

C6_Witness ==
    /\ Llama
    /\ C6_Failed
    /\ gen.exc = "OutOfMemoryError"
    /\ Len(gen.events) >= 2
    /\ gen.scorer_calls = MaxNewTokens

\* C7: what generate_gate returns equals the last element generate_stream_gate
\* yields for the same request and the same generator behaviour: the same
\* text, error_code, usage and finish_reason; and the one returns exactly
\* when the stream of the other ends.
C7_GateReturnsLastOfStream ==
    /\ ggate.pc = "returned" <=> sgate.pc = "ended"
    /\ ggate.pc = "raised" <=> sgate.pc = "raised"
    /\ ggate.pc = "returned" =>
          /\ sgate.out # <<>>
          /\ ggate.ret = Last(sgate.out)

C7_Witness ==
    /\ ggate.pc = "returned"
    /\ ggate.ret.error_code = 0
    /\ Len(sgate.out) >= 3
    /\ ggate.ret.finish_reason = "length"
    /\ ggate.ret.usage.completion_tokens = MaxNewTokens - 1

\* the event a transition yields carries the index of its step
C9_EventIndex ==
    (Llama /\ Len(gen'.events) > Len(gen.events)) =>
       /\ Len(gen'.events) = Len(gen.events) + 1
       /\ Last(gen'.events).usage.completion_tokens = gen'.i
       /\ Last(gen'.events).usage.completion_tokens = Len(Generated(gen')) - 1

C9_OneToken ==
    (Llama /\ gen.pc = "done" /\ params.max_new_tokens = 1) =>
       /\ Len(Generated(gen)) = 1
       /\ Last(gen.events).usage.completion_tokens = 0
       /\ Last(gen.events).finish_reason = "length"

\* C9: whenever generate_stream yields an event, its completion_tokens is
\* the zero-based index of the step it is yielded at, which is the number of
\* tokens generated so far minus one; and a run with max_new_tokens = 1 that
\* completes has generated one token and ends with completion_tokens 0 and
\* finish_reason "length".
C9_CompletionTokensIsStepIndex ==
    /\ [][C9_EventIndex]_vars
    /\ []C9_OneToken

C9_Witness ==
    /\ Llama
    /\ gen.pc = "done"
    /\ params.max_new_tokens = 1
    /\ gen.token = eos_token_id
    /\ Last(gen.events).usage.completion_tokens = 0

\* C10: a request with max_new_tokens = 0 invokes the scorer for no step and
\* generates no token, generate_stream ends with a terminal event whose
\* finish_reason is "length", and neither gate lets an exception escape.
C10_ZeroBudgetTerminates ==
    (Llama /\ params.max_new_tokens = 0 /\ gen.exc \notin ScorerExc) =>
       /\ gen.scorer_calls = 0
       /\ Generated(gen) = <<>>
       /\ gen.pc # "raised"
       /\ sgate.pc # "raised"
       /\ ggate.pc # "raised"
       /\ gen.pc = "done" => Last(gen.events).finish_reason = "length"

\* temperature < 1e-5 or top_p < 1e-8
C8_GreedyRequest ==
    \/ params.temperature.n * 100000 < params.temperature.d
    \/ params.top_p.n * 100000000 < params.top_p.d

C8_Processed(g) ==
    LastTokenLogits(SP(params), Prefix(g.output_ids, Len(g.output_ids) - 1),
                    g.logits)

\* C8: with temperature < 1e-5 or top_p < 1e-8, whatever top_k and
\* repetition_penalty are, the token of every step is the lowest index
\* holding the maximum of the processed score vector, and two runs given the
\* same request and the same scorer outputs are equal: the same tokens, the
\* same events.
C8_GreedyDeterminism ==
    C8_GreedyRequest =>
       /\ gen = gen2
       /\ (gen.pc \in {"loop", "finish", "done"} /\ ~IsUnbound(gen.i)) =>
             /\ \A u \in Vocab : C8_Processed(gen)[u] <= C8_Processed(gen)[gen.token]
             /\ \A u \in Vocab :
                   u < gen.token =>
                      C8_Processed(gen)[u] < C8_Processed(gen)[gen.token]

C8_Witness ==
    /\ C8_GreedyRequest
    /\ gen.pc = "done"
    /\ gen2.pc = "done"
    /\ Len(gen.events) >= 3
    /\ params.top_k = 2
    /\ params.repetition_penalty = Two
    /\ params.temperature = Two
    /\ gen.logits[0] = gen.logits[2]
    /\ gen.token = 0

\* C11: whenever the run ends with the token-level or the string-level stop
\* check fired at its final step, the last budgeted step included, the
\* terminal event's finish_reason is "stop".
C11_StopReportsStop ==
    (Llama /\ gen.pc = "done" /\ gen.stopped) =>
       Last(gen.events).finish_reason = "stop"

\* C12: a generate_stream run that completes has yielded at least two
\* events; exactly one, the last, is the terminal event, and it carries the
\* text and the usage of the event before it, which is the in-loop event of
\* the final step and has finish_reason None.
C12_TerminalRepeatsLastEvent ==
    (Llama /\ gen.pc = "done") =>
       /\ Len(gen.events) >= 2
       /\ Cardinality({k \in 1..Len(gen.events) :
                          gen.events[k].finish_reason # None}) = 1
       /\ Last(gen.events).finish_reason # None
       /\ LET prev == gen.events[Len(gen.events) - 1]
          IN  /\ prev.finish_reason = None
              /\ prev.usage.completion_tokens = gen.i
              /\ Last(gen.events).text = prev.text
              /\ Last(gen.events).usage = prev.usage

C12_Witness ==
    /\ Llama
    /\ gen.pc = "done"
    /\ server.stream_interval = 2
    /\ params.max_new_tokens = 2
    /\ gen.i = 1
    /\ ~gen.stopped
    /\ Len(gen.events) = 3

\* C13: the scorer is invoked once per step; the call of step 0 is given the
\* prompt tokens left after truncation (an encoder-decoder is given them as
\* the encoding passed along with the decoder start id) and no cache; the
\* call of every later step is given the one token selected at the step
\* before and the cache the call of the step before returned.
C13_IncrementalCalls ==
    (Llama /\ gen.calls # <<>>) =>
       /\ Len(gen.calls) = gen.scorer_calls
       /\ gen.scorer_calls = gen.i + 1
       /\ Len(Generated(gen)) \in {gen.i, gen.i + 1}
       /\ LET first == gen.calls[1]
              given == IF server.is_encoder_decoder
                       THEN first.encoder_input ELSE first.input_ids
          IN  /\ first.past_key_values = 0
              /\ \E n \in 0..Len(Encode(params.prompt)) :
                     given = Suffix(Encode(params.prompt), n)
              /\ server.is_encoder_decoder =>
                     first.input_ids = <<decoder_start_token_id>>
       /\ \A k \in 2..Len(gen.calls) :
             /\ gen.calls[k].input_ids = <<Generated(gen)[k - 1]>>
             /\ gen.calls[k].past_key_values = k - 1

C13_Witness ==
    /\ Llama
    /\ ~server.is_encoder_decoder
    /\ gen.pc = "done"
    /\ Len(gen.calls) = MaxNewTokens
    /\ Len(gen.calls[1].input_ids) = 2
    /\ gen.calls[MaxNewTokens].input_ids = <<2>>

\* C14: for a decoder-only model the first scorer call is given the last
\* min(len(prompt tokens), max_src_len) tokens of the prompt, where
\* max_src_len = context_len - max_new_tokens - 8, and so never more than
\* max_src_len tokens.
C14_FirstCallIsBoundedSuffix ==
    (Llama /\ ~server.is_encoder_decoder /\ gen.calls # <<>>) =>
       LET ids == Encode(params.prompt)
           maxSourceLength == server.context_len - params.max_new_tokens - 8
           n == IF Len(ids) < maxSourceLength THEN Len(ids) ELSE maxSourceLength
       IN  /\ Len(gen.calls[1].input_ids) <= maxSourceLength
           /\ gen.calls[1].input_ids =
                 (IF n <= 0 THEN <<>> ELSE SubSeq(ids, Len(ids) - n + 1, Len(ids)))

\* the latest step yielded an event and the stop field is a list
C15_ListEmission ==
    /\ Llama
    /\ params.stop.kind = "list"
    /\ gen.pc \in {"loop", "finish", "done"}
    /\ ~IsUnbound(gen.i)
    /\ gen.events # <<>>
    /\ gen.events[IF gen.pc = "done" THEN Len(gen.events) - 1
                   ELSE Len(gen.events)].usage.completion_tokens = gen.i

\* the positions in the list of the stop strings that occur in the decoded
\* text at or after rfind_start
C15_Matching ==
    {k \in 1..Len(params.stop.val) :
        Occurrences(FullText(gen), params.stop.val[k], ClaimedRfindStart) # {}}

\* C15: on an emission step with a list of stop strings, the first string
\* of the list that occurs in the decoded text at or after rfind_start cuts
\* the text at the start of its own last occurrence and sets stopped,
\* whatever later strings of the list occur and wherever; when none occurs
\* the text is not cut and stopped is the token-level result.
C15_FirstListedStopWins ==
    C15_ListEmission =>
       IF C15_Matching = {}
       THEN /\ gen.output = FullText(gen)
            /\ gen.stopped = (gen.token \in ClaimedStopIds)
       ELSE LET each_stop == params.stop.val[SetMin(C15_Matching)]
                cut == SetMax(Occurrences(FullText(gen), each_stop,
                                          ClaimedRfindStart))
            IN  /\ gen.output = Prefix(FullText(gen), cut)
                /\ gen.pos = cut
                /\ gen.stopped
                /\ gen.pc \in {"finish", "done"}
                /\ gen.events[IF gen.pc = "done" THEN Len(gen.events) - 1
                               ELSE Len(gen.events)].text = gen.output

C15_Witness ==
    /\ C15_ListEmission
    /\ C15_Matching = {1, 2}
    /\ rfind(FullText(gen), params.stop.val[2], ClaimedRfindStart) < gen.pos
    /\ gen.output # <<>>
    /\ gen.pc = "done"

\* the text the token buffer decodes to once the token of step k is in it
C16_TextAt(k) ==
    Decode(IF params.echo
           THEN Prefix(gen.output_ids, gen.input_echo_len + k + 1)
           ELSE SubSeq(gen.output_ids, gen.input_echo_len + 1,
                       gen.input_echo_len + k + 1))

\* the steps so far at which the decoded text holds a stop string at or
\* after rfind_start
C16_StepsWithStopString ==
    {k \in 0..gen.i :
        \E each \in StopStrings :
           Occurrences(C16_TextAt(k), each, ClaimedRfindStart) # {}}

\* C16: a step i with i % stream_interval # 0, i # max_new_tokens - 1 and a
\* token that is no stop token yields no event, leaves the text as it was
\* and does not set stopped; and once the decoded text holds a stop string
\* at or after rfind_start, first at step s, the loop ends no later than
\* step s + stream_interval - 1, with at most stream_interval - 1 tokens
\* generated after the one of step s.
C16_StopStringLag ==
    (Llama /\ gen.pc \in {"loop", "finish", "done"} /\ ~IsUnbound(gen.i)) =>
       /\ ~( \/ gen.i % server.stream_interval = 0
             \/ gen.i = params.max_new_tokens - 1
             \/ gen.token \in ClaimedStopIds ) =>
             /\ ~gen.stopped
             /\ gen.pos = -1
             /\ \A k \in 1..Len(gen.events) :
                   gen.events[k].usage.completion_tokens < gen.i
             /\ gen.output = Last(gen.events).text
       /\ C16_StepsWithStopString # {} =>
             LET s == SetMin(C16_StepsWithStopString)
             IN  /\ gen.i <= s + server.stream_interval - 1
                 /\ Len(Generated(gen)) <= s + server.stream_interval
                 /\ gen.pc = "loop" => gen.i < s + server.stream_interval - 1
                 /\ gen.i = s + server.stream_interval - 1 => gen.stopped

C16_Witness ==
    /\ Llama
    /\ gen.pc = "done"
    /\ server.stream_interval = 2
    /\ C16_StepsWithStopString = {1, 2}
    /\ gen.i = 2
    /\ gen.pos # -1
    /\ Len(Generated(gen)) = 3

\* C17: when a generator raises for an invalid input (an unknown role in a
\* message list, a stop field that is neither a string nor an iterable), the
\* scorer has not been invoked and no event has been yielded.
C17_InvalidInputFailsFast ==
    (gen.pc = "raised"
       /\ gen.exc_msg \in {"Invalid stop field type.", "Unknown role"}) =>
       /\ gen.scorer_calls = 0
       /\ gen.encoder_calls = 0
       /\ gen.events = <<>>

\* C18: once the cancellation flag is set, no step of the loop begins: the
\* scorer is not invoked again, and no further event, the terminal one
\* included, is yielded.
C18_CancelStopsLoop ==
    [][(Llama /\ cancelled) =>
          /\ gen'.scorer_calls = gen.scorer_calls
          /\ gen'.events = gen.events]_vars

\* the token a step of a run selects is the one the run selects alone:
\* alone, the selection of step i is given the variate number i + 1 of the
\* generator, seeded alike
C19_AsAlone(g, gn) ==
    (gn.scorer_calls = g.scorer_calls + 1 /\ gn.pc # "raised") =>
       gn.token = Select(SP(params),
                         LastTokenLogits(SP(params), g.output_ids, gn.logits),
                         rng'[gn.i + 1])

\* C19: of two generate_stream runs sampling stochastically and interleaved
\* at their scorer calls, each selects at every step the token it selects
\* when it runs alone with the same seed and the same scorer outputs.
C19_RequestScopedRandom ==
    [][C19_AsAlone(gen, gen') /\ C19_AsAlone(gen2, gen2')]_vars

\* the place of a processor in the order temperature scaling, repetition
\* penalty, top-p, top-k
C20_Place(name) ==
    CASE name = "TemperatureLogitsWarper" -> 1
      [] name = "RepetitionPenaltyLogitsProcessor" -> 2
      [] name = "TopPLogitsWarper" -> 3
      [] name = "TopKLogitsWarper" -> 4

C20_Has(name) ==
    \E k \in 1..Len(gen.logits_processor) : gen.logits_processor[k] = name

\* C20: the list prepare_logits_processor returns holds its processors in
\* the order temperature scaling, repetition penalty, top-p, top-k, each at
\* most once: temperature scaling iff temperature >= 1e-5 and temperature
\* # 1.0, repetition penalty iff repetition_penalty > 1.0, top-p iff
\* 1e-8 <= top_p < 1.0, top-k iff top_k > 0; and a step hands the token
\* history to the pipeline exactly when repetition_penalty > 1.0.
C20_ProcessorListAndHistory ==
    (Llama /\ gen.pc # "start") =>
       /\ \A j, k \in 1..Len(gen.logits_processor) :
             j < k => C20_Place(gen.logits_processor[j])
                        < C20_Place(gen.logits_processor[k])
       /\ C20_Has("TemperatureLogitsWarper") <=>
             /\ params.temperature.n * 100000 >= params.temperature.d
             /\ params.temperature.n # params.temperature.d
       /\ C20_Has("RepetitionPenaltyLogitsProcessor") <=>
             params.repetition_penalty.n > params.repetition_penalty.d
       /\ C20_Has("TopPLogitsWarper") <=>
             /\ params.top_p.n * 100000000 >= params.top_p.d
             /\ params.top_p.n < params.top_p.d
       /\ C20_Has("TopKLogitsWarper") <=> params.top_k > 0
       /\ (gen.pc \in {"loop", "finish", "done"} /\ ~IsUnbound(gen.i)) =>
             /\ gen.pipeline.called <=> gen.logits_processor # <<>>
             /\ gen.pipeline.with_ids <=>
                   params.repetition_penalty.n > params.repetition_penalty.d
             /\ gen.pipeline.with_ids =>
                   gen.pipeline.ids =
                      Prefix(gen.output_ids, Len(gen.output_ids) - 1)

C20_Witness ==
    /\ Llama
    /\ gen.pc = "done"
    /\ Len(gen.logits_processor) = 4
    /\ gen.pipeline.with_ids
    /\ gen.pipeline.ids = <<1, 2>>

\* C21: no step of a generation call, through either gate, changes the
\* request the caller supplied: its stop_token_ids list and its prompt
\* (text or message list) hold after the call the values they held before.
C21_RequestUnchanged ==
    [][/\ params'.stop_token_ids = params.stop_token_ids
       /\ params'.messages = params.messages
       /\ params'.prompt = params.prompt]_vars

\* C22 as claimed: the text of every event generate_stream has yielded,
\* in-loop or terminal, holds no configured stop string at or after
\* rfind_start.
C22_NoStopStringInEvents ==
    Llama =>
       \A k \in 1..Len(gen.events) :
          \A each \in StopStrings :
             Occurrences(gen.events[k].text, each, ClaimedRfindStart) = {}

\* the occurrences of configured stop strings, at or after rfind_start, in
\* the text the token buffer decodes to
C22_Found ==
    {m \in StopStrings \X (0..Len(FullText(gen))) :
        m[2] \in Occurrences(FullText(gen), m[1], ClaimedRfindStart)}

\* event k was yielded at the step that ended the loop, or after the loop
C22_OfFinalStep(k) ==
    /\ gen.pc \in {"finish", "done"}
    /\ gen.events[k].usage.completion_tokens = gen.i

\* C22 amended: the text of every event yielded before the final step holds
\* no configured stop string at or after rfind_start; the events of the
\* final step, in-loop and terminal, hold none either when the decoded text
\* of that step holds at most one occurrence of a configured stop string at
\* or after rfind_start.
C22_NoStopStringUnlessRepeated ==
    (Llama /\ gen.pc \in {"loop", "finish", "done"}) =>
       \A k \in 1..Len(gen.events) :
          (~C22_OfFinalStep(k) \/ Cardinality(C22_Found) <= 1) =>
             \A each \in StopStrings :
                Occurrences(gen.events[k].text, each, ClaimedRfindStart) = {}

C22_Witness ==
    /\ Llama
    /\ gen.pc = "done"
    /\ Cardinality(C22_Found) = 1
    /\ gen.pos = 1
    /\ gen.i = 2
    /\ Len(gen.events) = 3
    /\ Len(Last(gen.events).text) < Len(FullText(gen))

====
